---- MODULE Spec2Model ----
(***************************************************************************)
(* mbutil/util.py: disk_to_mbtiles (the directory walk, the metadata       *)
(* document, the tile inserts), the deduplication pass (compression_       *)
(* prepare, compression_do, compression_finalize), optimize_database and   *)
(* mbtiles_to_disk, over one sqlite3 connection.                           *)
(*                                                                         *)
(* Names of directories and files are sequences of one-character strings,  *)
(* so that re.sub, int(), str(), os.path.splitext and sorted() are         *)
(* computed on the characters as the code computes them.                   *)
(***************************************************************************)
EXTENDS Integers, Sequences, FiniteSets, TLC

(***************************************************************************)
(* Bounds of the model.                                                    *)
(***************************************************************************)
\* Files in the input tree.
MaxFiles == 2
\* compression_do's chunk parameter ranges over 1..MaxChunk.
MaxChunk == 2
\* Rows of table tiles when the deduplication pass is entered directly.
MaxTiles == 4

(***************************************************************************)
(* Characters, str() and int().                                            *)
(***************************************************************************)
Digits == {"0", "1", "2", "3", "4", "5", "6", "7", "8", "9"}

\* The characters of the model's names, in code point order.
Alphabet == <<".", "0", "1", "2", "3", "4", "5", "6", "7", "8", "9",
              "B", "F", "P", "b", "f", "g", "n", "p", "x", "y", "z">>

Ord(c) == CHOOSE k \in 1..Len(Alphabet) : Alphabet[k] = c

DigitVal(c) == Ord(c) - 2

DigitChar(d) == Alphabet[d + 2]

\* re.sub(r"[^\d]", "", s)
StripNonDigits(s) == SelectSeq(s, LAMBDA c : c \in Digits)

\* int(s) raises ValueError unless s is a decimal literal.
IsIntLiteral(s) == Len(s) > 0 /\ \A k \in 1..Len(s) : s[k] \in Digits

RECURSIVE IntOf(_)
IntOf(s) == IF Len(s) = 0 THEN 0
            ELSE 10 * IntOf(SubSeq(s, 1, Len(s) - 1)) + DigitVal(s[Len(s)])

RECURSIVE StrNat(_)
StrNat(n) == IF n < 10 THEN <<DigitChar(n)>>
             ELSE StrNat(n \div 10) \o <<DigitChar(n % 10)>>

\* str(n)
Str(n) == IF n < 0 THEN <<"-">> \o StrNat(0 - n) ELSE StrNat(n)

\* "%0<w>d" % n, for n >= 0
RECURSIVE ZeroPad(_, _)
ZeroPad(s, w) == IF Len(s) >= w THEN s ELSE ZeroPad(<<"0">> \o s, w)

\* s < t in Python's string order.
RECURSIVE StrLess(_, _)
StrLess(s, t) ==
    IF Len(t) = 0 THEN FALSE
    ELSE IF Len(s) = 0 THEN TRUE
    ELSE IF s[1] = t[1] THEN StrLess(Tail(s), Tail(t))
    ELSE Ord(s[1]) < Ord(t[1])

\* The index of the last "." of s, 0 when there is none.
LastDot(s) ==
    IF \E k \in 1..Len(s) : s[k] = "."
    THEN CHOOSE k \in 1..Len(s) :
            s[k] = "." /\ \A j \in (k + 1)..Len(s) : s[j] # "."
    ELSE 0

\* os.path.splitext(name): leading dots are not an extension separator.
SplitExt(name) ==
    LET d == LastDot(name) IN
    IF d > 0 /\ \E j \in 1..(d - 1) : name[j] # "."
    THEN [root |-> SubSeq(name, 1, d - 1), ext |-> SubSeq(name, d, Len(name))]
    ELSE [root |-> name, ext |-> <<>>]

\* ext.lstrip('.')
RECURSIVE LStripDots(_)
LStripDots(s) == IF Len(s) > 0 /\ s[1] = "." THEN LStripDots(Tail(s)) ELSE s

RECURSIVE Pow2(_)
Pow2(n) == IF n = 0 THEN 1 ELSE 2 * Pow2(n - 1)

flip_y(zoom, y) == (Pow2(zoom) - 1) - y

(***************************************************************************)
(* The inputs: the tree, the metadata document, the keyword arguments.     *)
(***************************************************************************)
PBF == <<"p", "b", "f">>

PNG == <<"p", "n", "g">>

Payloads == {"A", "B"}

Schemes == {"xyz", "tms", "wms"}

\* <root>/<zoom directory>/<column directory>/<file name>
Path(zd, xd, fn) == [zd |-> zd, xd |-> xd, fn |-> fn]

Paths ==
    { Path(<<"1">>, <<"1">>, <<"0", ".", "p", "b", "f">>),
      Path(<<"1">>, <<"1">>, <<"1", ".", "p", "b", "f">>),
      Path(<<"z", "1">>, <<"x", "1">>, <<"1", ".", "p", "b", "f">>),
      Path(<<"2">>, <<"1">>, <<"1", ".", "p", "b", "f">>),
      Path(<<"2">>, <<"1">>, <<"y", "1", ".", "p", "b", "f">>),
      Path(<<"2">>, <<"1">>, <<"1", ".", "p", "n", "g">>),
      Path(<<"2">>, <<"1">>, <<"1", ".", "P", "B", "F">>),
      Path(<<"2">>, <<"1">>, <<".", "1", ".", "p", "b", "f">>) }

RECURSIVE SubsetsUpTo(_, _)
SubsetsUpTo(S, k) ==
    IF k = 0 THEN {{}}
    ELSE LET r == SubsetsUpTo(S, k - 1)
         IN  r \cup {s \cup {p} : s \in r, p \in S}

\* A tree: its files, each a path with the bytes it holds.
Trees ==
    UNION { {{[path |-> p, data |-> d[p]] : p \in P} : d \in [P -> Payloads]}
            : P \in SubsetsUpTo(Paths, MaxFiles) }

\* metadata.json: absent, or a flat mapping of names to values.
MetaDocs ==
    { [exists |-> FALSE, doc |-> <<>>],
      [exists |-> TRUE, doc |-> ("name" :> <<"x">>)],
      [exists |-> TRUE, doc |-> ("format" :> PNG)] }

\* The keyword arguments of disk_to_mbtiles; 'format' may be left out.
Kwargs ==
    { [scheme |-> s, compression |-> c] : s \in {"xyz", "tms"}, c \in BOOLEAN }
    \cup { [scheme |-> s, compression |-> c, format |-> PNG] :
             s \in {"xyz", "tms"}, c \in BOOLEAN }

\* kwargs.get(key, default), metadata.get(key, default)
Get(d, key, default) == IF key \in DOMAIN d THEN d[key] ELSE default

\* sorted(get_dirs(directory_path), key=int(re.sub(...))): directories of equal
\* key keep the order os.listdir gave them, which is any order.
ZoomKey(zd) == IntOf(StripNonDigits(zd))

\* f is visited before g in the three nested sorted() loops.
VisitedBefore(f, g) ==
    IF f.path.zd # g.path.zd THEN ZoomKey(f.path.zd) <= ZoomKey(g.path.zd)
    ELSE IF f.path.xd # g.path.xd THEN StrLess(f.path.xd, g.path.xd)
    ELSE StrLess(f.path.fn, g.path.fn)

\* The orders in which the walk can visit the files of a tree: one zoom
\* directory is finished before the next is entered.
Listings(tree) ==
    LET n == Cardinality(tree) IN
    { s \in [1..n -> tree] :
        /\ \A a, b \in 1..n : a < b => s[a] # s[b] /\ VisitedBefore(s[a], s[b])
        /\ \A a, b, c \in 1..n :
              a < b /\ b < c /\ s[a].path.zd = s[c].path.zd
                 => s[b].path.zd = s[a].path.zd }

(***************************************************************************)
(* State.                                                                  *)
(***************************************************************************)
VARIABLES
    tree,             \* the input directory (read only)
    metaDoc,          \* the root metadata document (read only)
    kwargs,           \* disk_to_mbtiles' keyword arguments
    chunk,            \* compression_do's chunk
    pc,               \* the statement reached
    err,              \* the exception that ended the run, "none" otherwise
    walk,             \* files the three loops have still to visit
    image_format,     \* disk_to_mbtiles' image_format
    log,              \* what the walk did with each file it visited
    metadata,         \* table metadata: set of [name, value]
    tiles,            \* table tiles in rowid order: row k has rowid k
    tilesIsView,      \* tiles was dropped and recreated as the view
    dropped,          \* the rows table tiles held when it was dropped
    images,           \* table images, in insertion order
    map,              \* table map, in insertion order
    isolation_level,  \* con.isolation_level: "" or "None"
    inTxn,            \* a transaction is open on the connection
    dirty,            \* rows written per table since the last commit
    vacLog,           \* for each VACUUM executed: where, and the connection
    total_tiles, last_id, i, ids, files, rows,   \* compression_do's locals
    overlapping, unique,
    exportScheme,     \* mbtiles_to_disk's scheme
    outDoc,           \* the metadata.json mbtiles_to_disk wrote
    pending,          \* rows of the export cursor not yet fetched
    out               \* files mbtiles_to_disk wrote: [dir, name, data]

inputs == <<tree, metaDoc, kwargs, chunk>>

db == <<metadata, tiles, tilesIsView, dropped, images, map>>

conn == <<isolation_level, inTxn, dirty, vacLog>>

locals == <<total_tiles, last_id, i, ids, files, rows, overlapping, unique>>

export == <<exportScheme, outDoc, pending, out>>

vars == <<inputs, pc, err, walk, image_format, log, db, conn, locals, export>>

Clean == [metadata |-> 0, tiles |-> 0, images |-> 0, map |-> 0]

\* The state when disk_to_mbtiles is entered.
Init ==
    /\ tree \in Trees
    /\ metaDoc \in MetaDocs
    /\ kwargs \in Kwargs
    /\ chunk \in 1..MaxChunk
    /\ walk \in Listings(tree)
    /\ pc = "start"
    /\ err = "none"
    /\ image_format = <<>>
    /\ log = <<>>
    /\ metadata = {}
    /\ tiles = <<>>
    /\ tilesIsView = FALSE
    /\ dropped = <<>>
    /\ images = <<>>
    /\ map = <<>>
    /\ isolation_level = ""
    /\ inTxn = FALSE
    /\ dirty = Clean
    /\ vacLog = <<>>
    /\ total_tiles = 0
    /\ last_id = 0
    /\ i = 0
    /\ ids = <<>>
    /\ files = <<>>
    /\ rows = <<>>
    /\ overlapping = 0
    /\ unique = 0
    /\ exportScheme = "xyz"
    /\ outDoc = {}
    /\ pending = {}
    /\ out = {}

(***************************************************************************)
(* The sqlite3 connection: with isolation_level "" the module opens a      *)
(* transaction before INSERT; with None (autocommit) it opens none.        *)
(***************************************************************************)
\* The per-table counts of uncommitted rows after n rows went into table t.
Written(d, t, n) ==
    IF isolation_level = "None" THEN d ELSE [d EXCEPT ![t] = @ + n]

\* Whether a transaction is open after an INSERT.
AfterInsert == isolation_level # "None" \/ inTxn

\* The run ends with exception e propagating out of the function.
Raise(e) == pc' = "aborted" /\ err' = e

(***************************************************************************)
(* disk_to_mbtiles                                                         *)
(***************************************************************************)
\* mbtiles_connect, optimize_connection, mbtiles_setup: the tables and the
\* unique indexes on metadata(name) and tiles(zoom, column, row).
Setup ==
    /\ pc = "start"
    /\ pc' = "metadata"
    /\ UNCHANGED <<inputs, err, walk, image_format, log, db, conn, locals, export>>

\* The image format the walk compares extensions with.
EffectiveFormat(kw, md) ==
    LET configured == Get(kw, "format", PBF) IN
    IF md.exists THEN Get(md.doc, "format", configured) ELSE configured

\* Lines 192-208: insert every item of metadata.json, take its format.
LoadMetadata ==
    /\ pc = "metadata"
    /\ pc' = "sort"
    /\ image_format' = EffectiveFormat(kwargs, metaDoc)
    /\ IF metaDoc.exists
       THEN LET items == {[name |-> n, value |-> metaDoc.doc[n]] :
                            n \in DOMAIN metaDoc.doc}
            IN  /\ metadata' = metadata \cup items
                /\ inTxn' = IF items = {} THEN inTxn ELSE AfterInsert
                /\ dirty' = Written(dirty, "metadata", Cardinality(items))
       ELSE UNCHANGED <<metadata, inTxn, dirty>>
    /\ UNCHANGED <<inputs, err, walk, log, tiles, tilesIsView, dropped, images,
                   map, isolation_level, vacLog, locals, export>>

\* Line 214: the sort key is int() of the digits of every zoom directory.
SortZoomLevels ==
    /\ pc = "sort"
    /\ IF \E f \in tree : ~IsIntLiteral(StripNonDigits(f.path.zd))
       THEN Raise("ValueError")
       ELSE pc' = "walk" /\ err' = err
    /\ UNCHANGED <<inputs, walk, image_format, log, db, conn, locals, export>>

LowerChar(c) == CASE c = "B" -> "b" [] c = "F" -> "f" [] c = "P" -> "p" [] OTHER -> c

RECURSIVE Lower(_)
Lower(s) == IF Len(s) = 0 THEN <<>> ELSE <<LowerChar(s[1])>> \o Lower(Tail(s))

\* Mutant of ExtAccepted: the comparison ignores case.
ExtAccepted_IgnoreCase(ext, fmt) == Lower(ext) = Lower(fmt)

\* Line 233: the extension must equal the image format.
ExtAccepted(ext, fmt) == ext = fmt

\* Lines 245-246: the row stored for a file whose stem parsed to y.
StoredRow(scheme, z, y) == IF scheme = "tms" THEN flip_y(z, y) ELSE y

\* Mutant of TileIndexRejects: the unique index was never created.
TileIndex_Missing(tbl, z, x, y) == FALSE

\* Lines 41-42: the unique index on tiles(zoom_level, tile_column, tile_row).
TileIndexRejects(tbl, z, x, y) ==
    \E k \in 1..Len(tbl) :
        tbl[k].zoom_level = z /\ tbl[k].tile_column = x /\ tbl[k].tile_row = y

\* What the body of the innermost loop (lines 221-252) does with file f.
Outcome(f) ==
    LET parts == SplitExt(f.path.fn)
        ext   == LStripDots(parts.ext)
        z     == IntOf(StripNonDigits(f.path.zd))
        x     == IntOf(StripNonDigits(f.path.xd))
    IN  IF ~IsIntLiteral(StripNonDigits(f.path.xd)) THEN "ValueError"
        ELSE IF f.path.fn[1] = "." THEN "hidden"
        ELSE IF ~ExtAccepted(ext, image_format) THEN "skipped"
        ELSE IF ~IsIntLiteral(parts.root) THEN "ValueError"
        ELSE IF TileIndexRejects(tiles, z, x,
                    StoredRow(kwargs.scheme, z, IntOf(parts.root)))
             THEN "IntegrityError"
        ELSE "inserted"

\* The row line 249 inserts for an accepted file.
TileRow(f) ==
    LET z == IntOf(StripNonDigits(f.path.zd)) IN
    [zoom_level  |-> z,
     tile_column |-> IntOf(StripNonDigits(f.path.xd)),
     tile_row    |-> StoredRow(kwargs.scheme, z, IntOf(SplitExt(f.path.fn).root)),
     tile_data   |-> f.data]

\* One pass of the innermost loop.
ImportFile ==
    /\ pc = "walk"
    /\ walk # <<>>
    /\ LET f == Head(walk)
           o == Outcome(f)
       IN  /\ log' = Append(log, [file |-> f, outcome |-> o])
           /\ walk' = Tail(walk)
           /\ IF o \in {"ValueError", "IntegrityError"}
              THEN Raise(o) /\ UNCHANGED <<tiles, inTxn, dirty>>
              ELSE IF o = "inserted"
              THEN /\ tiles' = Append(tiles, TileRow(f))
                   /\ inTxn' = AfterInsert
                   /\ dirty' = Written(dirty, "tiles", 1)
                   /\ UNCHANGED <<pc, err>>
              ELSE UNCHANGED <<pc, err, tiles, inTxn, dirty>>
    /\ UNCHANGED <<inputs, image_format, metadata, tilesIsView, dropped, images,
                   map, isolation_level, vacLog, locals, export>>

\* Lines 263-269: the loops are over.
WalkDone ==
    /\ pc = "walk"
    /\ walk = <<>>
    /\ pc' = IF Get(kwargs, "compression", FALSE) THEN "prepare" ELSE "opt_analyze"
    /\ UNCHANGED <<inputs, err, walk, image_format, log, db, conn, locals, export>>

(***************************************************************************)
(* compression_prepare, compression_do, compression_finalize               *)
(***************************************************************************)
\* CREATE TABLE IF NOT EXISTS images, map.
CompressionPrepare ==
    /\ pc = "prepare"
    /\ pc' = "do_init"
    /\ UNCHANGED <<inputs, err, walk, image_format, log, db, conn, locals, export>>

\* Lines 95-101.
DoInit ==
    /\ pc = "do_init"
    /\ pc' = "do_batch"
    /\ total_tiles' = Len(tiles)
    /\ last_id' = 0
    /\ i' = 0
    /\ overlapping' = 0
    /\ unique' = 0
    /\ UNCHANGED <<inputs, err, walk, image_format, log, db, conn, ids, files,
                   rows, export>>

\* Mutant of NumRounds: range(total_tiles // chunk), the last round is lost.
NumRounds_NoLastRound(total, c) == total \div c

\* Line 104: range(total_tiles // chunk + 1)
NumRounds(total, c) == total \div c + 1

\* Line 111: where rowid > i * chunk and rowid <= (i + 1) * chunk
InWindow(rowid, round, c) == rowid > round * c /\ rowid <= (round + 1) * c

\* The rows of tbl a round selects, in rowid order.
RECURSIVE SelectRows(_, _, _, _)
SelectRows(tbl, k, round, c) ==
    IF k > Len(tbl) THEN <<>>
    ELSE (IF InWindow(k, round, c) THEN <<tbl[k]>> ELSE <<>>)
         \o SelectRows(tbl, k + 1, round, c)

\* Lines 107-108: the payloads and identifiers a round starts with, given
\* those the round before ended with.
SeenAtRoundStart(seen) == <<>>

\* Lines 104-114: the head of the loop over the rounds.
DoBatch ==
    /\ pc = "do_batch"
    /\ IF i < NumRounds(total_tiles, chunk)
       THEN /\ ids' = SeenAtRoundStart(ids)
            /\ files' = SeenAtRoundStart(files)
            /\ rows' = SelectRows(tiles, 1, i, chunk)
            /\ pc' = "do_row"
       ELSE /\ pc' = "fin_ddl"
            /\ UNCHANGED <<ids, files, rows>>
    /\ UNCHANGED <<inputs, err, walk, image_format, log, db, conn, total_tiles,
                   last_id, i, overlapping, unique, export>>

\* Mutant of NextId: the increment is lost.
NextId_NoIncrement(last) == last

\* Line 128: last_id += 1
NextId(last) == last + 1

\* files.index(d): the first position of d in files.
IndexOf(seq, d) == CHOOSE k \in 1..Len(seq) : seq[k] = d /\ \A j \in 1..(k - 1) : seq[j] # d

\* A value bound to a column of INTEGER affinity: text that reads as an
\* integer is stored as that integer (line 137 binds str(last_id)).
IntegerAffinity(text) == IF IsIntLiteral(text) THEN IntOf(text) ELSE text

MapRow(r, id) ==
    [zoom_level |-> r.zoom_level, tile_column |-> r.tile_column,
     tile_row |-> r.tile_row, tile_id |-> id]

\* Lines 115-146: one row of the round.
DoRow ==
    /\ pc = "do_row"
    /\ rows # <<>>
    /\ LET r == Head(rows) IN
       IF \E k \in 1..Len(files) : files[k] = r.tile_data
       THEN /\ overlapping' = overlapping + 1
            /\ map' = Append(map, MapRow(r, ids[IndexOf(files, r.tile_data)]))
            /\ dirty' = Written(dirty, "map", 1)
            /\ UNCHANGED <<unique, last_id, ids, files, images>>
       ELSE /\ unique' = unique + 1
            /\ last_id' = NextId(last_id)
            /\ ids' = Append(ids, last_id')
            /\ files' = Append(files, r.tile_data)
            /\ images' = Append(images,
                   [tile_id |-> IntegerAffinity(Str(last_id')),
                    tile_data |-> r.tile_data])
            /\ map' = Append(map, MapRow(r, last_id'))
            /\ dirty' = Written(Written(dirty, "images", 1), "map", 1)
            /\ UNCHANGED overlapping
    /\ rows' = Tail(rows)
    /\ inTxn' = AfterInsert
    /\ UNCHANGED <<inputs, pc, err, walk, image_format, log, metadata, tiles,
                   tilesIsView, dropped, isolation_level, vacLog, total_tiles,
                   i, export>>

\* Mutant of DoCommit: the round ends without con.commit().
DoCommit_NoCommit ==
    /\ pc = "do_row"
    /\ rows = <<>>
    /\ i' = i + 1
    /\ pc' = "do_batch"
    /\ UNCHANGED <<inputs, err, walk, image_format, log, db, conn, total_tiles,
                   last_id, ids, files, rows, overlapping, unique, export>>

\* Line 147: con.commit() at the end of the round.
DoCommit ==
    /\ pc = "do_row"
    /\ rows = <<>>
    /\ inTxn' = FALSE
    /\ dirty' = Clean
    /\ i' = i + 1
    /\ pc' = "do_batch"
    /\ UNCHANGED <<inputs, err, walk, image_format, log, db, isolation_level,
                   vacLog, total_tiles, last_id, ids, files, rows, overlapping,
                   unique, export>>

Coord(r) == <<r.zoom_level, r.tile_column, r.tile_row>>

\* CREATE UNIQUE INDEX fails on a table that holds two rows of one key.
HasDuplicateCoord(tbl) ==
    \E a, b \in 1..Len(tbl) : a # b /\ Coord(tbl[a]) = Coord(tbl[b])

HasDuplicateId(tbl) ==
    \E a, b \in 1..Len(tbl) : a # b /\ tbl[a].tile_id = tbl[b].tile_id

\* Lines 152-164: drop tiles, create the view, the two unique indexes.
FinalizeDDL ==
    /\ pc = "fin_ddl"
    /\ dropped' = tiles
    /\ tiles' = <<>>
    /\ tilesIsView' = TRUE
    /\ IF HasDuplicateCoord(map) \/ HasDuplicateId(images)
       THEN Raise("IntegrityError")
       ELSE pc' = "fin_iso" /\ err' = err
    /\ UNCHANGED <<inputs, walk, image_format, log, metadata, images, map, conn,
                   locals, export>>

(***************************************************************************)
(* VACUUM, in compression_finalize ("fin") and optimize_database ("opt").  *)
(***************************************************************************)
Sites == {"fin", "opt"}

At == [fin |-> [iso |-> "fin_iso", vacuum |-> "fin_vacuum",
                restore |-> "fin_restore", after |-> "fin_analyze"],
       opt |-> [iso |-> "opt_iso", vacuum |-> "opt_vacuum",
                restore |-> "opt_restore", after |-> "opt_analyze2"]]

\* Mutant of SetIsolationNone: isolation_level is set on the cursor, which
\* leaves the connection as it was.
SetIsolationOnCursor(site) ==
    /\ pc = At[site].iso
    /\ pc' = At[site].vacuum
    /\ UNCHANGED <<inputs, err, walk, image_format, log, db, conn, locals, export>>

\* Lines 85, 168: con.isolation_level = None. The setter commits the open
\* transaction, if there is one.
SetIsolationNone(site) ==
    /\ pc = At[site].iso
    /\ pc' = At[site].vacuum
    /\ isolation_level' = "None"
    /\ inTxn' = FALSE
    /\ dirty' = Clean
    /\ UNCHANGED <<inputs, err, walk, image_format, log, db, vacLog, locals, export>>

\* Lines 86, 169: sqlite refuses VACUUM inside a transaction.
Vacuum(site) ==
    /\ pc = At[site].vacuum
    /\ vacLog' = Append(vacLog, [site |-> site, inTxn |-> inTxn,
                                 isolation_level |-> isolation_level])
    /\ IF inTxn THEN Raise("OperationalError")
       ELSE pc' = At[site].restore /\ err' = err
    /\ UNCHANGED <<inputs, walk, image_format, log, db, isolation_level, inTxn,
                   dirty, locals, export>>

\* Lines 87, 170: con.isolation_level = ''
RestoreIsolation(site) ==
    /\ pc = At[site].restore
    /\ pc' = At[site].after
    /\ isolation_level' = ""
    /\ UNCHANGED <<inputs, err, walk, image_format, log, db, inTxn, dirty,
                   vacLog, locals, export>>

AfterAnalyze == [fin_analyze |-> "opt_analyze", opt_analyze |-> "opt_iso",
                 opt_analyze2 |-> "commit"]

\* Lines 80, 89, 172: ANALYZE opens no transaction.
Analyze ==
    /\ pc \in DOMAIN AfterAnalyze
    /\ pc' = AfterAnalyze[pc]
    /\ UNCHANGED <<inputs, err, walk, image_format, log, db, conn, locals, export>>

\* Line 270: con.commit()
FinalCommit ==
    /\ pc = "commit"
    /\ pc' = "close"
    /\ inTxn' = FALSE
    /\ dirty' = Clean
    /\ UNCHANGED <<inputs, err, walk, image_format, log, db, isolation_level,
                   vacLog, locals, export>>

\* Line 271: con.close()
Close ==
    /\ pc = "close"
    /\ pc' = "closed"
    /\ UNCHANGED <<inputs, err, walk, image_format, log, db, conn, locals, export>>

(***************************************************************************)
(* mbtiles_to_disk, on the container disk_to_mbtiles closed                *)
(***************************************************************************)
\* The relation tiles: the table, or the view map JOIN images ON tile_id.
\* Each row is tagged with the rows it comes from, so that equal rows count.
TilesRelation ==
    IF tilesIsView
    THEN { [from |-> <<m, n>>,
            row |-> [zoom_level |-> map[m].zoom_level,
                     tile_column |-> map[m].tile_column,
                     tile_row |-> map[m].tile_row,
                     tile_data |-> images[n].tile_data]] :
             <<m, n>> \in { q \in (1..Len(map)) \X (1..Len(images)) :
                               images[q[2]].tile_id = map[q[1]].tile_id } }
    ELSE { [from |-> <<k, 0>>, row |-> tiles[k]] : k \in 1..Len(tiles) }

\* dict(con.execute('select name, value from metadata')).get(key, default)
MetaGet(key, default) ==
    IF \E e \in metadata : e.name = key
    THEN (CHOOSE e \in metadata : e.name = key).value
    ELSE default

\* Lines 291-317: the output directory, metadata.json, the query. The model's
\* metadata has no 'formatter' and table grids is empty, so layer.json and
\* the grid files are not written.
ExportStart ==
    /\ pc = "closed"
    /\ pc' = "export"
    /\ exportScheme' \in Schemes
    /\ outDoc' = metadata
    /\ pending' = TilesRelation
    /\ out' = {}
    /\ UNCHANGED <<inputs, err, walk, image_format, log, db, conn, locals>>

\* Mutant of ExportFlips: scheme tms flips too.
ExportFlips_TmsToo(scheme) == scheme \in {"xyz", "tms"}

\* Lines 323-324: the scheme for which the exporter flips the row.
ExportFlips(scheme) == scheme = "xyz"

\* Lines 320-343: the file a row is written to.
TileFile(scheme, t) ==
    LET z   == t.zoom_level
        x   == t.tile_column
        y   == IF ExportFlips(scheme) THEN flip_y(z, t.tile_row) ELSE t.tile_row
        fmt == MetaGet("format", PBF)
    IN  IF scheme = "wms"
        THEN [dir  |-> <<ZeroPad(Str(z), 2),
                         ZeroPad(Str(x \div 1000000), 3),
                         ZeroPad(Str((x \div 1000) % 1000), 3),
                         ZeroPad(Str(x % 1000), 3),
                         ZeroPad(Str(y \div 1000000), 3),
                         ZeroPad(Str((y \div 1000) % 1000), 3)>>,
              name |-> ZeroPad(Str(y % 1000), 3) \o <<".">> \o PNG,
              data |-> t.tile_data]
        ELSE [dir  |-> <<Str(z), Str(x)>>,
              name |-> Str(y) \o <<".">> \o fmt,
              data |-> t.tile_data]

\* Lines 318-350: ORDER BY zoom_level ASC; open(tile, 'wb') replaces a file.
ExportTile ==
    /\ pc = "export"
    /\ \E t \in pending :
          /\ \A u \in pending : t.row.zoom_level <= u.row.zoom_level
          /\ LET w == TileFile(exportScheme, t.row) IN
             out' = {o \in out : <<o.dir, o.name>> # <<w.dir, w.name>>} \cup {w}
          /\ pending' = pending \ {t}
    /\ UNCHANGED <<inputs, pc, err, walk, image_format, log, db, conn, locals,
                   exportScheme, outDoc>>

ExportDone ==
    /\ pc = "export"
    /\ pending = {}
    /\ pc' = "done"
    /\ UNCHANGED <<inputs, err, walk, image_format, log, db, conn, locals, export>>

Next ==
    \/ Setup
    \/ LoadMetadata
    \/ SortZoomLevels
    \/ ImportFile
    \/ WalkDone
    \/ CompressionPrepare
    \/ DoInit
    \/ DoBatch
    \/ DoRow
    \/ DoCommit
    \/ FinalizeDDL
    \/ \E site \in Sites : SetIsolationNone(site)
    \/ \E site \in Sites : Vacuum(site)
    \/ \E site \in Sites : RestoreIsolation(site)
    \/ Analyze
    \/ FinalCommit
    \/ Close
    \/ ExportStart
    \/ ExportTile
    \/ ExportDone

Spec == Init /\ [][Next]_vars

(***************************************************************************)
(* The deduplication pass on a container an import filled: N rows of       *)
(* pairwise different coordinates with rowids 1..N, written in the one     *)
(* transaction the import left open. compression_do takes chunk as a       *)
(* parameter; disk_to_mbtiles passes 256.                                  *)
(***************************************************************************)
DedupCoords == {<<0, 0, 0>>, <<1, 0, 1>>, <<1, 1, 0>>, <<2, 1, 1>>, <<2, 3, 2>>}

DedupTables ==
    UNION { { [k \in 1..n |->
                 [zoom_level |-> c[k][1], tile_column |-> c[k][2],
                  tile_row |-> c[k][3], tile_data |-> d[k]]] :
              c \in { q \in [1..n -> DedupCoords] :
                        \A a, b \in 1..n : a # b => q[a] # q[b] },
              d \in [1..n -> Payloads] }
            : n \in 0..MaxTiles }

InitDedup ==
    /\ tree = {}
    /\ metaDoc = [exists |-> FALSE, doc |-> <<>>]
    /\ kwargs = [scheme |-> "xyz", compression |-> TRUE]
    /\ chunk \in 1..MaxChunk
    /\ walk = <<>>
    /\ pc = "prepare"
    /\ err = "none"
    /\ image_format = PBF
    /\ log = <<>>
    /\ metadata = {}
    /\ tiles \in DedupTables
    /\ tilesIsView = FALSE
    /\ dropped = <<>>
    /\ images = <<>>
    /\ map = <<>>
    /\ isolation_level = ""
    /\ inTxn = (Len(tiles) > 0)
    /\ dirty = [Clean EXCEPT !.tiles = Len(tiles)]
    /\ vacLog = <<>>
    /\ total_tiles = 0
    /\ last_id = 0
    /\ i = 0
    /\ ids = <<>>
    /\ files = <<>>
    /\ rows = <<>>
    /\ overlapping = 0
    /\ unique = 0
    /\ exportScheme = "xyz"
    /\ outDoc = {}
    /\ pending = {}
    /\ out = {}

NextDedup ==
    \/ CompressionPrepare
    \/ DoInit
    \/ DoBatch
    \/ DoRow
    \/ DoCommit
    \/ FinalizeDDL
    \/ SetIsolationNone("fin")
    \/ Vacuum("fin")
    \/ RestoreIsolation("fin")
    \/ (pc = "fin_analyze" /\ Analyze)

SpecDedup == InitDedup /\ [][NextDedup]_vars

(***************************************************************************)
(* Properties                                                              *)
(***************************************************************************)
\* The payloads of a table's rows.
PayloadsOf(tbl) == {tbl[k].tile_data : k \in 1..Len(tbl)}

\* The rows of the relation tiles at coordinate c.
RowsAt(c) == {t \in TilesRelation : Coord(t.row) = c}

\* compression_finalize dropped the table without an error.
Deduplicated == tilesIsView /\ err = "none"

\* C1: after the deduplication pass over N tiles of which D are distinct by
\* content, images has exactly D rows, whatever N and chunk are.
C1_ImagesHoldEachPayloadOnce ==
    Deduplicated => Len(images) = Cardinality(PayloadsOf(dropped))

\* C2: deduplication is lossless: map has one row per original (zoom, column,
\* row), N rows in all, and the view tiles returns for each original
\* coordinate exactly one row, carrying the original payload.
C2_DedupLossless ==
    Deduplicated =>
        /\ Len(map) = Len(dropped)
        /\ \A k \in 1..Len(dropped) :
              /\ Cardinality({m \in 1..Len(map) : Coord(map[m]) = Coord(dropped[k])}) = 1
              /\ Cardinality(RowsAt(Coord(dropped[k]))) = 1
              /\ \A t \in RowsAt(Coord(dropped[k])) :
                    t.row.tile_data = dropped[k].tile_data

\* C2 witness: three rounds were needed (N an exact multiple of chunk, so the
\* last round was empty) and two tiles share a payload.
C2_Witness ==
    /\ Deduplicated
    /\ Len(dropped) = 2 * chunk
    /\ i = 3
    /\ Cardinality(PayloadsOf(dropped)) < Len(dropped)

\* The files the walk inserted.
Inserted == {log[k].file : k \in {j \in 1..Len(log) : log[j].outcome = "inserted"}}

\* The coordinate the names of an input file denote, non-digits stripped.
NamedCoord(f) ==
    <<IntOf(StripNonDigits(f.path.zd)), IntOf(StripNonDigits(f.path.xd)),
      IntOf(StripNonDigits(SplitExt(f.path.fn).root))>>

\* An output file at coordinate c that holds data.
WrittenAt(c, data) ==
    \E o \in out :
        /\ o.dir = <<Str(c[1]), Str(c[2])>>
        /\ SplitExt(o.name).root = Str(c[3])
        /\ o.data = data

\* C3: import without compression, then export with the same scheme (xyz or
\* tms), writes every imported tile at the zoom, column and row of its input
\* file, with the same bytes.
C3_RoundTrip ==
    (/\ pc = "done"
     /\ ~Get(kwargs, "compression", FALSE)
     /\ exportScheme = kwargs.scheme)
        => \A f \in Inserted : WrittenAt(NamedCoord(f), f.data)

\* The rows the export has written so far.
Exported == {t.row : t \in TilesRelation \ pending}

\* C4 as stated: an export with scheme tms writes the tile stored at (zoom,
\* column, row) with row component flip_y(zoom, row).
C4_TmsExportFlipsRow ==
    (pc \in {"export", "done"} /\ exportScheme = "tms") =>
        \A t \in Exported :
            WrittenAt(<<t.zoom_level, t.tile_column, flip_y(t.zoom_level, t.tile_row)>>,
                      t.tile_data)

\* C4 as amended: an export with scheme tms writes the tile stored at (zoom,
\* column, row) with row component row, unflipped, and the tile stored at
\* (2, 1, 1) with row component 1; it is scheme xyz that writes flip_y(zoom, row).
C4_TmsExportKeepsRow ==
    /\ (pc \in {"export", "done"} /\ exportScheme = "tms") =>
          \A t \in Exported :
              /\ WrittenAt(Coord(t), t.tile_data)
              /\ Coord(t) = <<2, 1, 1>> =>
                    \E o \in out : o.dir = <<<<"2">>, <<"1">>>>
                                   /\ SplitExt(o.name).root = <<"1">>
    /\ (pc \in {"export", "done"} /\ exportScheme = "xyz") =>
          \A t \in Exported :
              WrittenAt(<<t.zoom_level, t.tile_column, flip_y(t.zoom_level, t.tile_row)>>,
                        t.tile_data)

\* C4 witness: the tile stored at (2, 1, 1) was exported with scheme tms.
C4_Witness ==
    /\ pc = "done"
    /\ exportScheme = "tms"
    /\ \E t \in Exported : Coord(t) = <<2, 1, 1>>

Accepted(f) ==
    /\ f.path.fn[1] # "."
    /\ LStripDots(SplitExt(f.path.fn).ext) = image_format

\* C6: an accepted file whose stem carries non-digit decoration is stored at
\* the row its digits spell, and the import continues.
C6_DecoratedStemIsStripped ==
    \A k \in 1..Len(log) :
        LET f == log[k].file IN
        (/\ Accepted(f)
         /\ IsIntLiteral(StripNonDigits(SplitExt(f.path.fn).root))
         /\ log[k].outcome # "IntegrityError")
            => /\ log[k].outcome = "inserted"
               /\ \E r \in 1..Len(tiles) :
                     tiles[r].tile_row =
                        StoredRow(kwargs.scheme, NamedCoord(f)[1], NamedCoord(f)[3])

\* C7: the import never stores two tiles for one (zoom, column, row): the nth
\* accepted file of a coordinate already stored is rejected with an
\* IntegrityError that ends the run before dedup, optimize and close, and the
\* row stored first is still there, with its own payload.
C7_DuplicateCoordinateAborts ==
    /\ ~HasDuplicateCoord(tiles)
    /\ \A k \in 1..Len(log) :
          log[k].outcome = "IntegrityError" =>
              /\ k = Len(log)
              /\ pc = "aborted" /\ err = "IntegrityError"
              /\ vacLog = <<>> /\ map = <<>> /\ images = <<>> /\ ~tilesIsView
              /\ Len(tiles) = Cardinality(Inserted)
              /\ \E j \in 1..(k - 1) :
                    /\ log[j].outcome = "inserted"
                    /\ Coord(TileRow(log[j].file)) = Coord(TileRow(log[k].file))
                    /\ \E r \in 1..Len(tiles) : tiles[r] = TileRow(log[j].file)
    /\ \A j, k \in 1..Len(log) :
          (/\ j < k
           /\ log[j].outcome = "inserted"
           /\ log[k].outcome = "inserted")
              => Coord(TileRow(log[j].file)) # Coord(TileRow(log[k].file))

\* C7 witness: a second file of a stored coordinate has been rejected.
C7_Witness ==
    /\ err = "IntegrityError"
    /\ Len(tiles) = 1
    /\ log[Len(log)].file.data # tiles[1].tile_data

\* The format the extensions are to be compared with: the document's, when
\* the document exists and has one, the configured one (default pbf) if not.
DocumentWins ==
    IF metaDoc.exists /\ "format" \in DOMAIN metaDoc.doc THEN metaDoc.doc["format"]
    ELSE IF "format" \in DOMAIN kwargs THEN kwargs["format"]
    ELSE PBF

ExtOf(f) == LStripDots(SplitExt(f.path.fn).ext)

\* C8 as stated: a file is inserted if and only if its extension equals the
\* effective format. Files on which the run aborted are left out.
C8_InsertedIffExtensionMatches ==
    \A k \in 1..Len(log) :
        log[k].outcome \notin {"ValueError", "IntegrityError"} =>
            (log[k].outcome = "inserted" <=> ExtOf(log[k].file) = DocumentWins)

\* C8 as amended: a file whose name does not start with "." passes the
\* extension test if and only if its extension equals, case-sensitively, the
\* effective format; a file that passes is inserted, unless its stem or its
\* coordinate aborts the run; a file whose extension differs, or whose name
\* starts with ".", is skipped, inserts no row, and the walk goes on.
C8_ExtensionFilter ==
    /\ pc \notin {"start", "metadata"} => image_format = DocumentWins
    /\ Len(tiles) + Len(dropped) = Cardinality(Inserted)
    /\ \A k \in 1..Len(log) :
          LET f == log[k].file
              o == log[k].outcome
          IN  /\ f.path.fn[1] = "." => o = "hidden"
              /\ (f.path.fn[1] # "." /\ ExtOf(f) # DocumentWins) => o = "skipped"
              /\ (f.path.fn[1] # "." /\ ExtOf(f) = DocumentWins)
                    => o \in {"inserted", "ValueError", "IntegrityError"}
              /\ o \in {"hidden", "skipped"} => ~(pc = "aborted" /\ k = Len(log))

\* C8 witness: a file of another extension was skipped and the next file of
\* the walk inserted; the document's format overrode the configured one.
C8_Witness ==
    /\ Len(log) = 2
    /\ log[1].outcome = "skipped"
    /\ log[2].outcome = "inserted"
    /\ metaDoc.exists /\ "format" \in DOMAIN metaDoc.doc

\* C9: every VACUUM runs with no transaction open, on a connection in
\* autocommit mode, and the connection is back in implicit-transaction mode
\* right after it.
C9_VacuumOutsideTransaction ==
    /\ \A k \in 1..Len(vacLog) :
          ~vacLog[k].inTxn /\ vacLog[k].isolation_level = "None"
    /\ err # "OperationalError"
    /\ isolation_level = "None" <=>
          pc \in {"fin_vacuum", "fin_restore", "opt_vacuum", "opt_restore"}

\* C9 witness: optimize_database's VACUUM ran after tile and metadata inserts
\* that no commit followed.
C9_Witness ==
    /\ pc = "opt_restore"
    /\ ~Get(kwargs, "compression", FALSE)
    /\ Len(tiles) > 0
    /\ metadata # {}
    /\ Len(vacLog) = 1

\* C10: throughout compression_do every map row's tile_id is the tile_id of
\* exactly one images row, and the identifiers of the images rows strictly
\* increase in the order they were assigned.
C10_MapReferencesOneImage ==
    pc \in {"do_batch", "do_row"} =>
        /\ \A m \in 1..Len(map) :
              Cardinality({n \in 1..Len(images) : images[n].tile_id = map[m].tile_id}) = 1
        /\ \A a, b \in 1..Len(images) :
              a < b => images[a].tile_id < images[b].tile_id

\* C10 witness: a later round has assigned an identifier of its own.
C10_Witness ==
    /\ pc = "do_row"
    /\ i > 0
    /\ Len(files) > 0
    /\ Len(images) > Len(files)

====
